---- MODULE Spec2Model ----
(***************************************************************************)
(* Model of src/src/api.py: the Flask service that accumulates request     *)
(* metrics in a multi-process prometheus registry and republishes an       *)
(* average-latency gauge.                                                  *)
(*                                                                         *)
(* Text is a sequence of one-character strings, so that split and format   *)
(* are computed instead of assumed.  A latency value is a float whose      *)
(* magnitude is an integer; a quotient is kept as a reduced fraction.      *)
(***************************************************************************)
EXTENDS Integers, Sequences, FiniteSets, TLC

VARIABLES
    histogram,      \* histogram[w]: the histogram series of worker process w
    counter,        \* counter[w]: request-count series of w, in creation order
    counter_time,   \* counter_time[w]: latency-total series of w, in creation order
    gauge,          \* gauge[w]: the liveall gauge series of w
    handler,        \* handler[w]: position and locals of the request w is serving
    accepted,       \* accepted[l]: count and latency sum of the ingestions of
                    \* series l that were answered with success (history)
    exposition,     \* the outputs of the scrapes since the last write to a
                    \* series: the first one and the latest one (history)
    nreq            \* number of ingestion requests received so far

vars == <<histogram, counter, counter_time, gauge, handler, accepted, exposition, nreq>>

store == <<histogram, counter, counter_time, gauge>>

(***************************************************************************)
(* Bounds and input domains.                                               *)
(***************************************************************************)
MaxReq == 2

\* the worker processes of the service; each serves one request at a time
Workers == {"w1", "w2"}

\* glob order of the workers' files is not specified
WorkerOrders == {<<"w1", "w2">>, <<"w2", "w1">>}

\* the (request_method, endpoint) pairs the reporting services send
Routes ==
    {[request_method |-> <<"G">>, endpoint |-> <<"a">>],
     [request_method |-> <<"G">>, endpoint |-> <<"a", "_", "_", "x">>],
     [request_method |-> <<"G">>, endpoint |-> <<" ", "a">>],
     [request_method |-> <<"G", " ">>, endpoint |-> <<"a">>]}

FloatMagnitudes == {-1, 1, 2}

\* endpoints without, with one and with several delimiters, with a single
\* and a triple underscore, and with nothing before the delimiter
Endpoints ==
    {<<"a">>, <<"b">>,
     <<"a", "_", "_", "x">>, <<"a", "_", "_", "y">>,
     <<"a", "_", "_", "x", "_", "_", "y">>,
     <<"a", "_", "b">>, <<"a", "_", "_", "_", "x">>,
     <<"_", "_", "a">>}

\* values below, on, between and above the bucket bounds
ObservedValues == {-1, 1, 2, 8, 9, 35}

MaxObs == 3

PidNumbers == {1, 2}

StatusCodes == {[t |-> "int", n |-> 2, s |-> <<>>], [t |-> "str", n |-> 0, s |-> <<"2">>]}

payload == {"endpoint", "value", "request_method", "status_code", "pid"}

\* bucket upper bounds; the last one stands for float("inf")
buckets == <<1, 2, 3, 4, 5, 8, 13, 21, 34, 0>>

NumBuckets == Len(buckets)

(***************************************************************************)
(* JSON values.                                                            *)
(***************************************************************************)
JFloat(n) == [t |-> "float", n |-> n, s |-> <<>>]

JInt(n) == [t |-> "int", n |-> n, s |-> <<>>]

JStr(s) == [t |-> "str", n |-> 0, s |-> s]

Digit(d) ==
    CASE d = 0 -> "0" [] d = 1 -> "1" [] d = 2 -> "2" [] d = 3 -> "3"
      [] d = 4 -> "4" [] d = 5 -> "5" [] d = 6 -> "6" [] d = 7 -> "7"
      [] d = 8 -> "8" [] OTHER -> "9"

RECURSIVE Decimal(_)
Decimal(n) == IF n < 10 THEN <<Digit(n)>> ELSE Decimal(n \div 10) \o <<Digit(n % 10)>>

\* str(x) of a JSON string or a non-negative JSON integer
str(j) == IF j.t = "str" THEN j.s ELSE Decimal(j.n)

\* SplitFirst without the split
SplitNone(e) == e

\* endpoint.split('__')[0]: the text before the first occurrence of "__"
RECURSIVE SplitFirst(_)
SplitFirst(e) ==
    IF Len(e) = 0 THEN <<>>
    ELSE IF Len(e) >= 2 /\ e[1] = "_" /\ e[2] = "_" THEN <<>>
    ELSE <<e[1]>> \o SplitFirst(Tail(e))

\* "{} {} {}".format(method, endpoint, status)
Key(m, e, s) == m \o <<" ">> \o e \o <<" ">> \o s

(***************************************************************************)
(* Insertion-ordered dictionaries: sequences of [key, value] with distinct *)
(* keys.  The series of one metric in one worker's file are kept the same  *)
(* way, keyed by the label values <<pid, method, endpoint, status>>.       *)
(***************************************************************************)
Has(d, k) == \E i \in 1..Len(d) : d[i].key = k

Get(d, k) == d[CHOOSE i \in 1..Len(d) : d[i].key = k].value

Keys(d) == [i \in 1..Len(d) |-> d[i].key]

\* d[k] += v if k in d, else d[k] = v
AddTo(d, k, v) ==
    IF Has(d, k)
    THEN [i \in 1..Len(d) |-> IF d[i].key = k THEN [d[i] EXCEPT !.value = @ + v] ELSE d[i]]
    ELSE Append(d, [key |-> k, value |-> v])

\* metric.labels(...): the child is created with value 0 on first use
Labels(series, l) == IF Has(series, l) THEN series ELSE Append(series, [key |-> l, value |-> 0])

\* child.inc(amount): one read-modify-write under the value lock
Inc(series, l, amount) == AddTo(series, l, amount)

(***************************************************************************)
(* registry.collect() for one counter family: the entries of every         *)
(* worker's file, files in glob order, summed per label set.               *)
(***************************************************************************)
RECURSIVE AllEntries(_, _)
AllEntries(metric, order) ==
    IF Len(order) = 0 THEN <<>> ELSE metric[Head(order)] \o AllEntries(metric, Tail(order))

\* Accumulate that keeps, per label set, the value of the first file
RECURSIVE AccumulateFirst(_, _)
AccumulateFirst(d, entries) ==
    IF Len(entries) = 0 THEN d
    ELSE AccumulateFirst(IF Has(d, Head(entries).key) THEN d
                         ELSE AddTo(d, Head(entries).key, Head(entries).value),
                         Tail(entries))

RECURSIVE Accumulate(_, _)
Accumulate(d, entries) ==
    IF Len(entries) = 0 THEN d
    ELSE Accumulate(AddTo(d, Head(entries).key, Head(entries).value), Tail(entries))

Samples(metric, order) == Accumulate(<<>>, AllEntries(metric, order))

\* the part of a sample's labels the dictionary key is made of
SampleKey(l) == Key(l[2], l[3], l[4])

RECURSIVE TotalsOf(_, _)
TotalsOf(d, samples) ==
    IF Len(samples) = 0 THEN d
    ELSE TotalsOf(AddTo(d, SampleKey(Head(samples).key), Head(samples).value), Tail(samples))

total_gauge_time(order) == TotalsOf(<<>>, Samples(counter_time, order))

total_gauge_count(order) == TotalsOf(<<>>, Samples(counter, order))

(***************************************************************************)
(* Quotients.                                                              *)
(***************************************************************************)
RECURSIVE GCD(_, _)
GCD(a, b) == IF b = 0 THEN a ELSE GCD(b, a % b)

Zero == [num |-> 0, den |-> 1]

\* a / b for a >= 0, b > 0
Div(a, b) == [num |-> a \div GCD(a, b), den |-> b \div GCD(a, b)]

(***************************************************************************)
(* The loop of create_custom_gauge_metrics.                                *)
(***************************************************************************)
\* total_gauge_time.keys() and total_gauge_count
LoopKeys(tt, tc) == IF Len(tt) = 0 THEN <<>> ELSE Keys(tc)

\* gauge.labels(request_method, group, status_code)
GaugeChild(g, lbl) == IF lbl \in DOMAIN g THEN g ELSE g @@ (lbl :> Zero)

RECURSIVE GaugeLoop(_, _, _, _, _)
GaugeLoop(keys, tt, tc, g, lbl) ==
    IF Len(keys) = 0 THEN [gauge |-> g, error |-> "none"]
    ELSE LET key == Head(keys)
             g1 == GaugeChild(g, lbl)
         IN  IF ~Has(tt, key) THEN [gauge |-> g1, error |-> "KeyError"]
             ELSE IF Get(tc, key) = 0 THEN [gauge |-> g1, error |-> "ZeroDivisionError"]
             ELSE GaugeLoop(Tail(keys), tt, tc,
                            [g1 EXCEPT ![lbl] = Div(Get(tt, key), Get(tc, key))], lbl)

\* create_custom_gauge_metrics that sets the series of the key it iterates at
RECURSIVE GaugeLoopPerKey(_, _, _, _)
GaugeLoopPerKey(keys, tt, tc, g) ==
    IF Len(keys) = 0 THEN [gauge |-> g, error |-> "none"]
    ELSE LET key == Head(keys)
             g1 == GaugeChild(g, <<key>>)
         IN  IF ~Has(tt, key) THEN [gauge |-> g1, error |-> "KeyError"]
             ELSE IF Get(tc, key) = 0 THEN [gauge |-> g1, error |-> "ZeroDivisionError"]
             ELSE GaugeLoopPerKey(Tail(keys), tt, tc,
                                  [g1 EXCEPT ![<<key>>] = Div(Get(tt, key), Get(tc, key))])

gauge_metrics_per_key(g, request_method, group, status_code, order) ==
    GaugeLoopPerKey(LoopKeys(total_gauge_time(order), total_gauge_count(order)),
                    total_gauge_time(order), total_gauge_count(order), g)

create_custom_gauge_metrics(g, request_method, group, status_code, order) ==
    GaugeLoop(LoopKeys(total_gauge_time(order), total_gauge_count(order)),
              total_gauge_time(order), total_gauge_count(order),
              g, <<request_method, group, status_code>>)

(***************************************************************************)
(* Histogram.observe                                                       *)
(***************************************************************************)
EmptyHistogram == [buckets |-> [i \in 1..NumBuckets |-> 0], sum |-> 0]

\* BucketOf with the strict comparison
BucketOfStrict(v) == CHOOSE i \in 1..NumBuckets :
    /\ (i = NumBuckets \/ v < buckets[i])
    /\ \A j \in 1..(i - 1) : v >= buckets[j]

\* the first bucket whose bound is >= v; the last bound is +Inf
BucketOf(v) == CHOOSE i \in 1..NumBuckets :
    /\ (i = NumBuckets \/ v <= buckets[i])
    /\ \A j \in 1..(i - 1) : v > buckets[j]

observe(hist, l, v) ==
    LET child == IF l \in DOMAIN hist THEN hist[l] ELSE EmptyHistogram
        after == [buckets |-> [child.buckets EXCEPT ![BucketOf(v)] = @ + 1],
                  sum |-> child.sum + v]
    IN  IF l \in DOMAIN hist THEN [hist EXCEPT ![l] = after] ELSE hist @@ (l :> after)

(***************************************************************************)
(* Request payloads.  json = FALSE is a request without a JSON body; has   *)
(* is the set of fields that are present.                                  *)
(***************************************************************************)
ValidPayloads ==
    {[json |-> TRUE, has |-> payload, endpoint |-> r.endpoint,
      request_method |-> r.request_method, value |-> JFloat(n),
      status_code |-> c, pid |-> JInt(i)] :
        r \in Routes, n \in FloatMagnitudes, c \in StatusCodes, i \in PidNumbers}

SomePayload == CHOOSE p \in ValidPayloads : p.value.n > 0

DefectivePayloads ==
    {[SomePayload EXCEPT !.json = FALSE, !.has = {}]}
      \cup {[SomePayload EXCEPT !.has = payload \ {f}] : f \in payload}
      \cup {[SomePayload EXCEPT !.value = JInt(1)],
            [SomePayload EXCEPT !.value = JStr(<<"1">>)]}

Payloads == ValidPayloads \cup DefectivePayloads

\* Validate without the assertion of line 142
ValidateAnyType(p) ==
    IF ~p.json THEN "TypeError"
    ELSE IF ~(\A inputs \in payload : inputs \in p.has) THEN "AssertionError"
    ELSE "ok"

\* lines 140-142: get_json and the two assertions
Validate(p) ==
    IF ~p.json THEN "TypeError"
    ELSE IF ~(\A inputs \in payload : inputs \in p.has) THEN "AssertionError"
    ELSE IF p.value.t # "float" THEN "AssertionError"
    ELSE "ok"

(***************************************************************************)
(* Handlers.                                                               *)
(***************************************************************************)
Idle ==
    [pc |-> "idle", json |-> TRUE, has |-> payload, vtype |-> "float",
     endpoint |-> <<>>, value |-> 0, pid |-> <<>>, status_code |-> <<>>, request_method |-> <<>>,
     group |-> <<>>, written |-> FALSE, status |-> 0]

\* the response of lines 172-173; the locals are gone
Response(w, code) ==
    [Idle EXCEPT !.pc = "done", !.status = code,
                 !.json = handler[w].json, !.has = handler[w].has,
                 !.vtype = handler[w].vtype, !.written = handler[w].written]

\* SeriesLabels with one pid label for every request
SeriesLabelsOnePid(w) ==
    <<str(JInt(1)), handler[w].request_method, handler[w].group, handler[w].status_code>>

SeriesLabels(w) ==
    <<handler[w].pid, handler[w].request_method, handler[w].group, handler[w].status_code>>

GaugeLabels(w) == <<handler[w].request_method, handler[w].group, handler[w].status_code>>

NoneAccepted == [n |-> 0, sum |-> 0]

Accept(acc, l, v) ==
    IF l \in DOMAIN acc THEN [acc EXCEPT ![l] = [n |-> @.n + 1, sum |-> @.sum + v]]
    ELSE acc @@ (l :> [n |-> 1, sum |-> v])

Init ==
    /\ histogram = [w \in Workers |-> <<>>]
    /\ counter = [w \in Workers |-> <<>>]
    /\ counter_time = [w \in Workers |-> <<>>]
    /\ gauge = [w \in Workers |-> <<>>]
    /\ handler = [w \in Workers |-> Idle]
    /\ accepted = <<>>
    /\ exposition = <<>>
    /\ nreq = 0

\* lines 136-151: worker w takes a request, validates it and binds the locals
Receive(w) ==
    /\ handler[w].pc = "idle"
    /\ nreq < MaxReq
    /\ \E p \in Payloads :
         handler' = [handler EXCEPT ![w] =
            IF Validate(p) = "ok"
            THEN [Idle EXCEPT !.pc = "observe", !.json = p.json, !.has = p.has,
                              !.vtype = p.value.t,
                              !.value = p.value.n, !.pid = str(p.pid),
                              !.status_code = str(p.status_code),
                              !.request_method = p.request_method,
                              !.endpoint = p.endpoint,
                              !.group = SplitFirst(p.endpoint)]
            ELSE [Idle EXCEPT !.pc = "done", !.status = 400, !.json = p.json,
                              !.has = p.has, !.vtype = p.value.t]]
    /\ nreq' = nreq + 1
    /\ UNCHANGED <<store, accepted, exposition>>

\* line 154
Observe(w) ==
    /\ handler[w].pc = "observe"
    /\ histogram' = [histogram EXCEPT ![w] = observe(@, SeriesLabels(w), handler[w].value)]
    /\ handler' = [handler EXCEPT ![w].pc = "count_labels"]
    /\ exposition' = <<>>
    /\ UNCHANGED <<counter, counter_time, gauge, accepted, nreq>>

\* line 157, counter.labels(...); the endpoint as it was sent is read for the
\* last time at line 151 and is dropped from the locals here
CountLabels(w) ==
    /\ handler[w].pc = "count_labels"
    /\ counter' = [counter EXCEPT ![w] = Labels(@, SeriesLabels(w))]
    /\ handler' = [handler EXCEPT ![w].pc = "count_inc", ![w].endpoint = <<>>]
    /\ exposition' = <<>>
    /\ UNCHANGED <<histogram, counter_time, gauge, accepted, nreq>>

\* line 157, .inc()
CountInc(w) ==
    /\ handler[w].pc = "count_inc"
    /\ counter' = [counter EXCEPT ![w] = Inc(@, SeriesLabels(w), 1)]
    /\ handler' = [handler EXCEPT ![w].pc = "time_labels"]
    /\ exposition' = <<>>
    /\ UNCHANGED <<histogram, counter_time, gauge, accepted, nreq>>

\* line 158, counter_time.labels(...)
TimeLabels(w) ==
    /\ handler[w].pc = "time_labels"
    /\ counter_time' = [counter_time EXCEPT ![w] = Labels(@, SeriesLabels(w))]
    /\ handler' = [handler EXCEPT ![w].pc = "time_inc"]
    /\ exposition' = <<>>
    /\ UNCHANGED <<histogram, counter, gauge, accepted, nreq>>

\* TimeInc with an increment that takes any amount
TimeIncAnyAmount(w) ==
    /\ handler[w].pc = "time_inc"
    /\ counter_time' = [counter_time EXCEPT ![w] = Inc(@, SeriesLabels(w), handler[w].value)]
    /\ handler' = [handler EXCEPT ![w].pc = "gauge", ![w].written = TRUE]
    /\ exposition' = <<>>
    /\ UNCHANGED <<histogram, counter, gauge, accepted, nreq>>

\* line 158, .inc(value): a negative amount raises ValueError (lines 167-170)
TimeInc(w) ==
    /\ handler[w].pc = "time_inc"
    /\ IF handler[w].value < 0
       THEN /\ handler' = [handler EXCEPT ![w] = Response(w, 500)]
            /\ UNCHANGED <<counter_time, exposition>>
       ELSE /\ counter_time' = [counter_time EXCEPT ![w] =
                                   Inc(@, SeriesLabels(w), handler[w].value)]
            /\ handler' = [handler EXCEPT ![w].pc = "gauge", ![w].written = TRUE]
            /\ exposition' = <<>>
    /\ UNCHANGED <<histogram, counter, gauge, accepted, nreq>>

\* Gauge with a handler that takes back the ingestion's writes on failure
GaugeUndoing(w) ==
    /\ handler[w].pc = "gauge"
    /\ \E order \in WorkerOrders :
         LET r == create_custom_gauge_metrics(gauge[w], handler[w].request_method,
                     handler[w].group, handler[w].status_code, order)
         IN  /\ gauge' = [gauge EXCEPT ![w] = r.gauge]
             /\ handler' = [handler EXCEPT ![w] =
                               Response(w, IF r.error = "none" THEN 200 ELSE 500)]
             /\ accepted' = IF r.error = "none"
                            THEN Accept(accepted, SeriesLabels(w), handler[w].value)
                            ELSE accepted
             /\ counter' = IF r.error = "none" THEN counter
                           ELSE [counter EXCEPT ![w] = Inc(@, SeriesLabels(w), -1)]
             /\ counter_time' = IF r.error = "none" THEN counter_time
                                ELSE [counter_time EXCEPT ![w] =
                                         Inc(@, SeriesLabels(w), 0 - handler[w].value)]
    /\ exposition' = <<>>
    /\ UNCHANGED <<histogram, nreq>>

\* Gauge over one gauge file shared by the workers
GaugeShared(w) ==
    /\ handler[w].pc = "gauge"
    /\ \E order \in WorkerOrders :
         LET r == create_custom_gauge_metrics(gauge[w], handler[w].request_method,
                     handler[w].group, handler[w].status_code, order)
         IN  /\ gauge' = [u \in Workers |-> r.gauge]
             /\ handler' = [handler EXCEPT ![w] =
                               Response(w, IF r.error = "none" THEN 200 ELSE 500)]
             /\ accepted' = IF r.error = "none"
                            THEN Accept(accepted, SeriesLabels(w), handler[w].value)
                            ELSE accepted
    /\ exposition' = <<>>
    /\ UNCHANGED <<histogram, counter, counter_time, nreq>>

\* line 161, then lines 167-173
Gauge(w) ==
    /\ handler[w].pc = "gauge"
    /\ \E order \in WorkerOrders :
         LET r == create_custom_gauge_metrics(gauge[w], handler[w].request_method,
                     handler[w].group, handler[w].status_code, order)
         IN  /\ gauge' = [gauge EXCEPT ![w] = r.gauge]
             /\ handler' = [handler EXCEPT ![w] =
                               Response(w, IF r.error = "none" THEN 200 ELSE 500)]
             /\ accepted' = IF r.error = "none"
                            THEN Accept(accepted, SeriesLabels(w), handler[w].value)
                            ELSE accepted
    /\ exposition' = <<>>
    /\ UNCHANGED <<histogram, counter, counter_time, nreq>>

\* line 173
Return(w) ==
    /\ handler[w].pc = "done"
    /\ handler' = [handler EXCEPT ![w] = Idle]
    /\ UNCHANGED <<store, accepted, exposition, nreq>>

Next ==
    \E w \in Workers :
        \/ Receive(w)
        \/ Observe(w)
        \/ CountLabels(w)
        \/ CountInc(w)
        \/ TimeLabels(w)
        \/ TimeInc(w)
        \/ Gauge(w)
        \/ Return(w)

Spec == Init /\ [][Next]_vars

(***************************************************************************)
(* The exposition: generate_latest(registry) over the multiprocess         *)
(* collector.  Counters and histograms are summed over the workers' files  *)
(* per label set; the gauge is in mode liveall, one sample per worker and  *)
(* label set.  The output is kept as sets of samples.                      *)
(***************************************************************************)
RECURSIVE SumTo(_, _)
SumTo(b, i) == IF i = 0 THEN 0 ELSE b[i] + SumTo(b, i - 1)

\* the exposition's cumulative bucket counts; the last one is the count
Cumulative(b) == [i \in 1..NumBuckets |-> SumTo(b, i)]

RECURSIVE MergeHistogram(_, _)
MergeHistogram(ws, l) ==
    IF ws = {} THEN EmptyHistogram
    ELSE LET w == CHOOSE x \in ws : TRUE
             rest == MergeHistogram(ws \ {w}, l)
         IN  IF l \in DOMAIN histogram[w]
             THEN [buckets |-> [i \in 1..NumBuckets |->
                                   rest.buckets[i] + histogram[w][l].buckets[i]],
                   sum |-> rest.sum + histogram[w][l].sum]
             ELSE rest

HistogramSamples ==
    {[labels |-> l, bucket |-> Cumulative(MergeHistogram(Workers, l).buckets),
      sum |-> MergeHistogram(Workers, l).sum] :
        l \in UNION {DOMAIN histogram[w] : w \in Workers}}

CounterSamples(metric, order) ==
    {Samples(metric, order)[i] : i \in 1..Len(Samples(metric, order))}

GaugeSamples ==
    UNION {{[worker |-> w, labels |-> l, value |-> gauge[w][l]] : l \in DOMAIN gauge[w]} :
             w \in Workers}

generate_latest(order) ==
    [histogram |-> HistogramSamples,
     counter |-> CounterSamples(counter, order),
     counter_time |-> CounterSamples(counter_time, order),
     gauge |-> GaugeSamples]

\* lines 143-151 for one route, with values on all sides of the bucket bounds
ReceiveValue(w) ==
    /\ handler[w].pc \in {"idle", "count_labels"}
    /\ nreq < MaxObs
    /\ \E v \in ObservedValues :
         handler' = [handler EXCEPT ![w] =
            [Idle EXCEPT !.pc = "observe", !.value = v, !.pid = str(JInt(1)),
                         !.status_code = str(JInt(2)), !.request_method = <<"G">>,
                         !.endpoint = <<"a">>, !.group = SplitFirst(<<"a">>)]]
    /\ nreq' = nreq + 1
    /\ UNCHANGED <<store, accepted, exposition>>

NextObserve == \E w \in Workers : ReceiveValue(w) \/ Observe(w)

\* line 154 alone: the observations of one series by the two workers
SpecObserve == Init /\ [][NextObserve]_vars

\* lines 136-151 for one method, status, pid and value
ReceiveEndpoint(w) ==
    /\ handler[w].pc = "idle"
    /\ nreq < MaxReq
    /\ \E e \in Endpoints :
         handler' = [handler EXCEPT ![w] =
            [Idle EXCEPT !.pc = "observe", !.value = 1, !.pid = str(JInt(1)),
                         !.status_code = str(JInt(2)), !.request_method = <<"G">>,
                         !.endpoint = e, !.group = SplitFirst(e)]]
    /\ nreq' = nreq + 1
    /\ UNCHANGED <<store, accepted, exposition>>

NextEndpoints ==
    \E w \in Workers :
        \/ ReceiveEndpoint(w)
        \/ Observe(w)
        \/ CountLabels(w)
        \/ CountInc(w)
        \/ TimeLabels(w)
        \/ TimeInc(w)
        \/ Gauge(w)
        \/ Return(w)

\* the ingestions of requests that differ in their endpoint only
SpecEndpoints == Init /\ [][NextEndpoints]_vars

\* lines 114-118: a worker that is not serving an ingestion answers GET /metrics
Scrape ==
    /\ \E w \in Workers : handler[w].pc = "idle"
    /\ \E order \in WorkerOrders :
         exposition' = IF exposition = <<>> THEN <<generate_latest(order)>>
                       ELSE <<exposition[1], generate_latest(order)>>
    /\ UNCHANGED <<store, handler, accepted, nreq>>

\* the requests of one method, status and pid whose endpoints are of one group
GroupPayloads ==
    {p \in ValidPayloads :
        /\ p.request_method = <<"G">> /\ p.endpoint[1] = "a"
        /\ p.status_code = JInt(2) /\ p.pid = JInt(1)}

\* lines 136-151 for the requests of one group
ReceiveGroup(w) ==
    /\ handler[w].pc = "idle"
    /\ nreq < MaxReq
    /\ \E p \in GroupPayloads :
         handler' = [handler EXCEPT ![w] =
            [Idle EXCEPT !.pc = "observe", !.json = p.json, !.has = p.has,
                         !.vtype = p.value.t,
                         !.value = p.value.n, !.pid = str(p.pid),
                         !.status_code = str(p.status_code),
                         !.request_method = p.request_method,
                         !.endpoint = p.endpoint,
                         !.group = SplitFirst(p.endpoint)]]
    /\ nreq' = nreq + 1
    /\ UNCHANGED <<store, accepted, exposition>>

NextScrape ==
    \/ \E w \in Workers :
          \/ ReceiveGroup(w)
          \/ Observe(w)
          \/ CountLabels(w)
          \/ CountInc(w)
          \/ TimeLabels(w)
          \/ TimeInc(w)
          \/ Gauge(w)
          \/ Return(w)
    \/ Scrape

\* the ingestions of one group by the two workers, and the scrapes
SpecScrape == Init /\ [][NextScrape]_vars

(***************************************************************************)
(* Reference quantities the statements below are written with.             *)
(***************************************************************************)
GroupOf(l) == <<l[2], l[3], l[4]>>

\* the sum of the values of the series of one file that carry the group lbl
RECURSIVE SumGroup(_, _)
SumGroup(series, lbl) ==
    IF Len(series) = 0 THEN 0
    ELSE (IF GroupOf(Head(series).key) = lbl THEN Head(series).value ELSE 0)
            + SumGroup(Tail(series), lbl)

RECURSIVE SumOver(_, _, _)
SumOver(ws, metric, lbl) ==
    IF ws = {} THEN 0
    ELSE LET w == CHOOSE x \in ws : TRUE
         IN  SumGroup(metric[w], lbl) + SumOver(ws \ {w}, metric, lbl)

\* merged total of a counter family for a group: summed over workers and pids
Merged(metric, lbl) == SumOver(Workers, metric, lbl)

GroupsIn(metric) ==
    UNION {{GroupOf(metric[w][i].key) : i \in 1..Len(metric[w])} : w \in Workers}

\* the sum of the values of one series over the workers' files
RECURSIVE SumSeries(_, _)
SumSeries(series, l) ==
    IF Len(series) = 0 THEN 0
    ELSE (IF Head(series).key = l THEN Head(series).value ELSE 0) + SumSeries(Tail(series), l)

RECURSIVE SeriesOver(_, _, _)
SeriesOver(ws, metric, l) ==
    IF ws = {} THEN 0
    ELSE LET w == CHOOSE x \in ws : TRUE
         IN  SumSeries(metric[w], l) + SeriesOver(ws \ {w}, metric, l)

Exposed(metric, l) == SeriesOver(Workers, metric, l)

SeriesIn(metric) == UNION {{metric[w][i].key : i \in 1..Len(metric[w])} : w \in Workers}

Quiescent == \A w \in Workers : handler[w].pc \in {"idle", "done"}

\* w takes the step that runs create_custom_gauge_metrics
GaugeStep(w) == handler[w].pc = "gauge" /\ handler'[w].pc = "done"

\* no other worker is in the middle of an ingestion
Alone(w) == \A u \in Workers \ {w} : handler[u].pc \in {"idle", "done"}

\* no two groups of the store are formatted to the same dictionary key
DistinctKeys ==
    \A a, b \in GroupsIn(counter) :
        Key(a[1], a[2], a[3]) = Key(b[1], b[2], b[3]) => a = b

\* every latency-total series holds the sum of the values its histogram observed:
\* no ingestion stopped between its observation and its latency increment
NoPartialIngestion ==
    \A w \in Workers : \A l \in DOMAIN histogram[w] :
        /\ Has(counter_time[w], l)
        /\ Get(counter_time[w], l) = histogram[w][l].sum

\* the groups that have an entry in exactly one of the two source families
PartialGroups ==
    (GroupsIn(counter) \ GroupsIn(counter_time)) \cup (GroupsIn(counter_time) \ GroupsIn(counter))

\* the groups whose merged request count is 0
ZeroCountGroups == {lbl \in GroupsIn(counter) : Merged(counter, lbl) = 0}

(***************************************************************************)
(* C1: when an ingestion for a group completes with success, the gauge     *)
(* series of that group (in the serving worker) holds the merged total     *)
(* latency of the group divided by its merged total request count.  It is  *)
(* stated for the plainest case: no other ingestion is in progress, none   *)
(* was cut short and no two groups share a dictionary key.                 *)
(***************************************************************************)
C1_GaugeIsGroupAverage ==
    [][\A w \in Workers :
        (GaugeStep(w) /\ handler'[w].status = 200 /\ Alone(w) /\ NoPartialIngestion
            /\ DistinctKeys) =>
            /\ GaugeLabels(w) \in DOMAIN gauge'[w]
            /\ gauge'[w][GaugeLabels(w)] =
                  Div(Merged(counter_time, GaugeLabels(w)), Merged(counter, GaugeLabels(w)))]_vars

(***************************************************************************)
(* C2: an ingestion whose latency value is negative is rejected and no     *)
(* step of it changes any series of the store.                             *)
(***************************************************************************)
C2_NegativeLeavesStore ==
    [][\A w \in Workers :
        (handler[w].pc \notin {"idle", "done"} /\ handler[w].value < 0
            /\ handler'[w] # handler[w]) =>
            /\ UNCHANGED store
            /\ handler'[w].pc = "done" => handler'[w].status \notin {0, 200}]_vars

(***************************************************************************)
(* C3: every ingestion whose histogram observation and two counter         *)
(* increments succeeded is answered with the success status.               *)
(***************************************************************************)
C3_GaugeFailureNotSurfaced ==
    \A w \in Workers :
        (handler[w].pc = "done" /\ handler[w].written) => handler[w].status = 200

(***************************************************************************)
(* C4: when a group has an entry in only one of the two source families    *)
(* at the time of a recomputation, the recomputation raises no error.      *)
(***************************************************************************)
C4_PartialGroupSkipped ==
    [][\A w \in Workers :
        (GaugeStep(w) /\ PartialGroups # {}) => handler'[w].status = 200]_vars

(***************************************************************************)
(* C5: whenever no ingestion is in progress, every gauge series of every   *)
(* worker equals merged total latency / merged total count of its group    *)
(* (stated for stores in which no ingestion was cut short and no two       *)
(* groups share a dictionary key).                                         *)
(***************************************************************************)
C5_GaugeReflectsTotals ==
    (Quiescent /\ NoPartialIngestion /\ DistinctKeys) =>
        \A w \in Workers : \A lbl \in DOMAIN gauge[w] :
            /\ Merged(counter, lbl) > 0
            /\ gauge[w][lbl] = Div(Merged(counter_time, lbl), Merged(counter, lbl))

(***************************************************************************)
(* C6: a payload that lacks a required field, or whose latency value is    *)
(* not a float, is answered with 400 and no step of its handling creates   *)
(* or changes a histogram, counter or gauge series.                        *)
(***************************************************************************)
Defective(r) == ~r.json \/ r.has # payload \/ r.vtype # "float"

C6_DefectiveRejected ==
    [][\A w \in Workers :
        (handler'[w] # handler[w] /\ (Defective(handler[w]) \/ Defective(handler'[w]))) =>
            /\ UNCHANGED store
            /\ handler[w].pc = "idle" =>
                  (handler'[w].pc = "done" /\ handler'[w].status = 400)
            /\ handler[w].pc # "idle" => handler'[w].pc = "idle"]_vars

\* a defective payload has been answered while the store already holds series
C6_Witness ==
    /\ \E w \in Workers :
          handler[w].pc = "done" /\ handler[w].status = 400 /\ Defective(handler[w])
    /\ \E u \in Workers : Len(counter[u]) > 0 /\ DOMAIN gauge[u] # {}

(***************************************************************************)
(* C7: when a group's merged request count is 0 at the time of a           *)
(* recomputation, no error results and no gauge entry is created for it.   *)
(***************************************************************************)
C7_ZeroCountSkipped ==
    [][\A w \in Workers :
        (GaugeStep(w) /\ ZeroCountGroups # {}) =>
            /\ handler'[w].status = 200
            /\ \A lbl \in ZeroCountGroups : lbl \in DOMAIN gauge'[w] => lbl \in DOMAIN gauge[w]]_vars

(***************************************************************************)
(* C8: once the ingestions have completed, a series that took at least two *)
(* of them has a request count equal to the number of accepted ingestions  *)
(* of the series and a latency total equal to the sum of their values.     *)
(***************************************************************************)
AcceptedOf(l) == IF l \in DOMAIN accepted THEN accepted[l] ELSE NoneAccepted

C8_NoLostIncrement ==
    Quiescent =>
        \A l \in SeriesIn(counter) :
            Exposed(counter, l) >= 2 =>
                /\ Exposed(counter, l) = AcceptedOf(l).n
                /\ Exposed(counter_time, l) = AcceptedOf(l).sum

(***************************************************************************)
(* C9: for every group (method, endpoint, status) and every order of the   *)
(* workers' files, the totals the average is computed from equal the sum,  *)
(* over all pids and workers, of the counter values carrying those labels. *)
(***************************************************************************)
C9_TotalsAreGroupSums ==
    \A order \in WorkerOrders :
        /\ \A lbl \in GroupsIn(counter) :
              Get(total_gauge_count(order), Key(lbl[1], lbl[2], lbl[3])) = Merged(counter, lbl)
        /\ \A lbl \in GroupsIn(counter_time) :
              Get(total_gauge_time(order), Key(lbl[1], lbl[2], lbl[3])) = Merged(counter_time, lbl)

(***************************************************************************)
(* C10: the step in which the derived-gauge computation fails leaves the   *)
(* histogram and both counter families as they are, with the observation   *)
(* and the two increments of that ingestion in them.                       *)
(***************************************************************************)
C10_WritesSurviveGaugeFailure ==
    [][\A w \in Workers :
        (GaugeStep(w) /\ handler'[w].status = 500) =>
            /\ UNCHANGED <<histogram, counter, counter_time>>
            /\ Has(counter'[w], SeriesLabels(w))
            /\ Get(counter'[w], SeriesLabels(w)) >= 1
            /\ Has(counter_time'[w], SeriesLabels(w))
            /\ Get(counter_time'[w], SeriesLabels(w)) >= handler[w].value
            /\ SeriesLabels(w) \in DOMAIN histogram'[w]
            /\ histogram'[w][SeriesLabels(w)].buckets[BucketOf(handler[w].value)] >= 1]_vars

\* an ingestion whose writes were made has been answered 500
C10_Witness ==
    \E w \in Workers :
        handler[w].pc = "done" /\ handler[w].written /\ handler[w].status = 500

(***************************************************************************)
(* C11: when another group's data is incomplete or has a zero count at the *)
(* time of a recomputation, the gauge of the group of the request being    *)
(* handled is still set to that group's own average.                       *)
(***************************************************************************)
C11_OwnGroupStillUpdated ==
    [][\A w \in Workers :
        (GaugeStep(w) /\ DistinctKeys
            /\ (PartialGroups \cup ZeroCountGroups) \ {GaugeLabels(w)} # {}) =>
            /\ GaugeLabels(w) \in DOMAIN gauge'[w]
            /\ gauge'[w][GaugeLabels(w)] =
                  Div(Merged(counter_time, GaugeLabels(w)), Merged(counter, GaugeLabels(w)))]_vars

(***************************************************************************)
(* C12: within one worker's file, no request-count series and no           *)
(* latency-total series ever disappears or decreases, whatever step is     *)
(* taken by an accepted or a rejected ingestion.                           *)
(***************************************************************************)
NeverDecreases(before, after) ==
    \A i \in 1..Len(before) :
        /\ Has(after, before[i].key)
        /\ Get(after, before[i].key) >= before[i].value

C12_CountersMonotone ==
    [][\A w \in Workers :
        /\ NeverDecreases(counter[w], counter'[w])
        /\ NeverDecreases(counter_time[w], counter_time'[w])]_vars

\* a latency total has grown twice and a rejected ingestion has been answered
C12_Witness ==
    /\ \E w \in Workers : \E i \in 1..Len(counter_time[w]) :
          counter_time[w][i].value >= 2 /\ Get(counter[w], counter_time[w][i].key) = 2
    /\ \E w \in Workers : handler[w].pc = "done" /\ handler[w].status # 200

(***************************************************************************)
(* C13: each worker keeps its own gauge series for a label set: the step   *)
(* of a worker that writes the gauge leaves the gauge series of the other  *)
(* workers as they were, and the gauge samples of the exposition have,    *)
(* for every worker and label set, one sample holding that worker's value. *)
(***************************************************************************)
C13_GaugeSeriesPerWorker ==
    [][/\ \A w \in Workers : GaugeStep(w) =>
              \A u \in Workers \ {w} : gauge'[u] = gauge[u]
       /\ \A w \in Workers : \A l \in DOMAIN gauge[w] :
              /\ [worker |-> w, labels |-> l, value |-> gauge[w][l]] \in GaugeSamples
              /\ \A x \in GaugeSamples :
                    (x.worker = w /\ x.labels = l) => x.value = gauge[w][l]]_vars

\* the two workers hold different values for the same labels, and one of
\* them has just written its own
C13_Witness ==
    \E w \in Workers : \E u \in Workers \ {w} :
        /\ handler[w].pc = "done" /\ handler[w].status = 200
        /\ \E l \in DOMAIN gauge[w] \cap DOMAIN gauge[u] :
              /\ gauge[w][l] # gauge[u][l]
              /\ gauge[w][l] # Zero /\ gauge[u][l] # Zero

NonDecreasing(c) == \A i \in 1..(NumBuckets - 1) : c[i] <= c[i + 1]

BoundCovers(i, v) == i = NumBuckets \/ buckets[i] >= v

CumulativeOf(hist, l) ==
    IF l \in DOMAIN hist THEN Cumulative(hist[l].buckets) ELSE Cumulative(EmptyHistogram.buckets)

C15_CumulativeBuckets ==
    [][/\ \A w \in Workers : \A l \in DOMAIN histogram'[w] :
              NonDecreasing(Cumulative(histogram'[w][l].buckets))
       /\ \A l \in UNION {DOMAIN histogram'[w] : w \in Workers} :
              NonDecreasing(Cumulative(MergeHistogram(Workers, l)'.buckets))
       /\ \A w \in Workers :
              (handler[w].pc = "observe" /\ handler'[w].pc = "count_labels") =>
                 \A i \in 1..NumBuckets :
                    /\ CumulativeOf(histogram'[w], SeriesLabels(w))[i] =
                          CumulativeOf(histogram[w], SeriesLabels(w))[i]
                             + (IF BoundCovers(i, handler[w].value) THEN 1 ELSE 0)
                    /\ Cumulative(MergeHistogram(Workers, SeriesLabels(w))'.buckets)[i] =
                          Cumulative(MergeHistogram(Workers, SeriesLabels(w)).buckets)[i]
                             + (IF BoundCovers(i, handler[w].value) THEN 1 ELSE 0)]_vars

\* a series of one worker has taken a value above every finite bound, a value
\* on a bound and a value between two bounds
C15_Witness ==
    \E w \in Workers : \E l \in DOMAIN histogram[w] :
        /\ handler[w].pc = "count_labels"
        /\ Cumulative(histogram[w][l].buckets)[NumBuckets - 1] = 2
        /\ Cumulative(histogram[w][l].buckets)[NumBuckets] = 3
        /\ Cumulative(histogram[w][l].buckets)[6] = 1
        /\ Cumulative(histogram[w][l].buckets)[7] = 2

(***************************************************************************)
(* C16: the endpoint label of every series an ingestion writes is the text *)
(* of the request's endpoint before the first "__" (the whole text where   *)
(* there is none): the observation goes to the histogram series of that    *)
(* group, and the counter and gauge writes that follow use the same label, *)
(* so endpoints that differ after the delimiter share their series.        *)
(***************************************************************************)
DelimAt(e, i) == i < Len(e) /\ e[i] = "_" /\ e[i + 1] = "_"

BeforeDelim(e) ==
    IF \E i \in 1..Len(e) : DelimAt(e, i)
    THEN SubSeq(e, 1, (CHOOSE i \in 1..Len(e) :
                          DelimAt(e, i) /\ \A j \in 1..(i - 1) : ~DelimAt(e, j)) - 1)
    ELSE e

InFlight == {"observe", "count_labels", "count_inc", "time_labels", "time_inc", "gauge"}

CountOf(hist, l) == CumulativeOf(hist, l)[NumBuckets]

GroupSeries(w) ==
    <<handler[w].pid, handler[w].request_method, BeforeDelim(handler[w].endpoint),
      handler[w].status_code>>

C16_EndpointNormalised ==
    [][\A w \in Workers :
        /\ (handler[w].pc = "observe" /\ handler'[w].pc = "count_labels") =>
              /\ CountOf(histogram'[w], GroupSeries(w)) = CountOf(histogram[w], GroupSeries(w)) + 1
              /\ SeriesLabels(w) = GroupSeries(w)
        /\ (handler[w].pc \in InFlight /\ handler'[w].pc \in InFlight) =>
              /\ handler'[w].group = handler[w].group
              /\ handler'[w].pid = handler[w].pid
              /\ handler'[w].request_method = handler[w].request_method
              /\ handler'[w].status_code = handler[w].status_code
        /\ (handler[w].pc = "count_inc" /\ handler'[w].pc = "time_labels") =>
              Get(counter'[w], SeriesLabels(w)) = Get(counter[w], SeriesLabels(w)) + 1
        /\ (handler[w].pc = "time_inc" /\ handler'[w].pc = "gauge") =>
              Get(counter_time'[w], SeriesLabels(w)) =
                 Get(counter_time[w], SeriesLabels(w)) + handler[w].value
        /\ GaugeStep(w) =>
              <<handler[w].request_method, handler[w].group, handler[w].status_code>>
                 \in DOMAIN gauge'[w]]_vars

\* the two workers have made the observations of two requests whose endpoints
\* differ after the delimiter, in the same series
C16_Witness ==
    /\ handler["w1"].pc = "count_labels" /\ handler["w2"].pc = "count_labels"
    /\ handler["w1"].endpoint # handler["w2"].endpoint
    /\ handler["w1"].endpoint # handler["w1"].group
    /\ handler["w2"].endpoint # handler["w2"].group
    /\ SeriesLabels("w1") = SeriesLabels("w2")
    /\ HistogramSamples # {}
    /\ \A x \in HistogramSamples : x.bucket[NumBuckets] = 2

(***************************************************************************)
(* C17: every step of an ingestion that names the worker identity p leaves *)
(* the histogram, request-count and latency-total series labelled with     *)
(* another identity as they were, in every worker's file: none is created, *)
(* removed or changed.                                                     *)
(***************************************************************************)
OtherSeries(series, p) == SelectSeq(series, LAMBDA x : x.key[1] # p)

OtherHistograms(hist, p) == [l \in {k \in DOMAIN hist : k[1] # p} |-> hist[l]]

C17_OtherIdentitiesUntouched ==
    [][\A w \in Workers :
        (handler[w].pc \in InFlight /\ handler'[w] # handler[w]) =>
            \A u \in Workers :
                /\ OtherHistograms(histogram'[u], handler[w].pid)
                      = OtherHistograms(histogram[u], handler[w].pid)
                /\ OtherSeries(counter'[u], handler[w].pid)
                      = OtherSeries(counter[u], handler[w].pid)
                /\ OtherSeries(counter_time'[u], handler[w].pid)
                      = OtherSeries(counter_time[u], handler[w].pid)]_vars

\* a worker has written the three series of an ingestion naming one identity
\* into the file that holds the series of another identity
C17_Witness ==
    \E w \in Workers :
        /\ handler[w].pc = "gauge"
        /\ handler[w].pid \in {l[1] : l \in DOMAIN histogram[w]}
        /\ OtherHistograms(histogram[w], handler[w].pid) # <<>>
        /\ Len(OtherSeries(counter[w], handler[w].pid)) > 0
        /\ Len(OtherSeries(counter_time[w], handler[w].pid)) > 0

(***************************************************************************)
(* C18: whenever no ingestion is in progress, every label set (pid,        *)
(* method, endpoint, status) has a histogram count equal to its request    *)
(* counter and a histogram sum equal to its latency total, in the merged   *)
(* exposition.                                                             *)
(***************************************************************************)
C18_HistogramMatchesCounters ==
    Quiescent =>
        \A l \in SeriesIn(counter) \cup SeriesIn(counter_time)
                  \cup UNION {DOMAIN histogram[w] : w \in Workers} :
            /\ Cumulative(MergeHistogram(Workers, l).buckets)[NumBuckets] = Exposed(counter, l)
            /\ MergeHistogram(Workers, l).sum = Exposed(counter_time, l)

(***************************************************************************)
(* C19: the step of an ingestion for group g that recomputes the gauge     *)
(* writes no gauge series but the one labelled with g, in any worker's     *)
(* file: the series of every other label set keep their values, and the    *)
(* set of other label sets that have a series stays the same.              *)
(***************************************************************************)
OtherGauges(g, lbl) == [l \in DOMAIN g \ {lbl} |-> g[l]]

C19_GaugeWrittenUnderOwnLabels ==
    [][\A w \in Workers :
        (handler[w].pc \in InFlight /\ handler'[w] # handler[w]) =>
            \A u \in Workers :
                OtherGauges(gauge'[u], GaugeLabels(w)) = OtherGauges(gauge[u], GaugeLabels(w))]_vars

\* a recomputation that iterated over two groups has just set the series of
\* its own group, next to the series of another group
C19_Witness ==
    \E w \in Workers :
        /\ handler[w].pc = "done" /\ handler[w].status = 200
        /\ Cardinality(GroupsIn(counter)) >= 2
        /\ Cardinality(DOMAIN gauge[w]) >= 2
        /\ \A l \in DOMAIN gauge[w] : gauge[w][l] # Zero

====
